---- MODULE Spec2Model ----
(***************************************************************************)
(* Resource-ownership and caching layer of crankstart's graphics module    *)
(* (src/src/graphics.rs): the process-wide driver pointer GRAPHICS, the    *)
(* reference-counted Bitmap and BitmapTable wrappers, Font, and the        *)
(* Graphics facade.  The native driver is the environment: what it returns *)
(* is chosen with \E, and every call that reaches it is logged in `calls`. *)
(***************************************************************************)
EXTENDS Integers, Sequences, FiniteSets, TLC

\* ---------------------------------------------------------------- bounds
\* Bitmap objects (Rc<RefCell<BitmapInner>> allocations) created in one run.
MaxBitmaps == 2
\* Bitmap / BitmapTable values (clones) the caller holds of one object.
MaxRefs == 2
\* get_bitmap calls on one (table, index) that fail on a null fetch.
MaxFails == 1
\* Font values constructed in one run.
MaxFonts == 1

\* ------------------------------------------------------ values and names
\* ptr::null_mut(): the null pointer of every native pointer type.
NULL == 0

\* Driver function tables the hosting runtime may install with Graphics::new.
Drivers == {"h1", "h2"}
NoDriver == "null"

\* Native bitmap handles: 1..MaxBitmaps are handed out fresh by the driver's
\* allocating calls; two more are owned by the system and handed back by
\* every getFrameBufferBitmap / getDebugImage call.
FrameBufferHandle == MaxBitmaps + 1
DebugImageHandle == MaxBitmaps + 2
BitmapHandles == 1..(MaxBitmaps + 2)

\* The one native font the driver's loadFont can return.
FontHandles == {1}

\* Indices queried on a bitmap table.
Indices == {0, 1}

\* The BitmapTable objects followed: tables share nothing but the pool of
\* Bitmap objects, so one is followed.
TableIds == {1}

\* Error strings the driver's decoder writes to out_err.
DriverErrors == {"file not found", "bad image"}
NoError == "null"
OutErr == DriverErrors \cup {NoError}

\* Whether an in-place load decoded the file: what the native call reports
\* besides out_err.
LoadStatus == {"decoded", "failed"}

\* The facade's calls that take no bitmap, and those that take a target
\* and a stencil.
FacadeFns == {"setBackgroundColor", "markUpdatedRows", "display", "setDrawOffset", "clear"}
DrawFns == {"drawLine", "fillTriangle", "drawRect", "fillRect", "drawEllipse", "fillEllipse"}

\* Messages of the errors this layer constructs itself.
MsgLoadBitmapSilent == "load_bitmap failed without providing an error message"
MsgLoadTableSilent == "load_bitmap_table failed without providing an error message"
MsgFontNull == "Null pointer passed to Font::new"
MsgNewBitmapNull == "Null pointer returned from new_bitmap"
MsgDebugNull == "Null pointer returned from getDebugImage"
MsgFrameBufferNull == "Null pointer returned from getFrameBufferBitmap"
MsgTableBitmapNull == "Failed to load bitmap from table"

VARIABLES
    GRAPHICS,    \* static mut GRAPHICS: the driver pointer stored process-wide
    gvals,       \* the Graphics values (copies of the pointer) the caller holds
    bitmaps,     \* Rc<RefCell<BitmapInner>> objects, by creation order
    tables,      \* Rc<RefCell<BitmapTableInner>> objects, by creation order
    fonts,       \* the Font values constructed, by creation order
    freeCount,   \* per native bitmap handle: freeBitmap calls issued so far
    lookups,     \* per table and index: get_bitmap calls, fetches and failures so far
    calls,       \* the native calls the last operation issued, in order
    result,      \* what the last operation returned
    crashed      \* a native call was made through a null driver pointer

vars == <<GRAPHICS, gvals, bitmaps, tables, fonts, freeCount, lookups, calls, result, crashed>>

\* ------------------------------------------------------ the call bridge
\* One invocation of a slot of the driver table `drv`: the bitmap handles
\* passed, the other arguments, and what the driver returned.
NativeCall(drv, fn, bm, other, ret) ==
    [fn |-> fn, drv |-> drv, bm |-> bm, other |-> other, ret |-> ret]

\* What the driver returns: a pointer, what it wrote to out_err, a status.
Ret(handle, err) == [handle |-> handle, err |-> err, status |-> "none"]
RetLoad(status, err) == [handle |-> NULL, err |-> err, status |-> status]
NoRet == Ret(NULL, NoError)

\* Result<T, Error> of an operation `op` called with `arg`.
Ok(op, arg, val) == [op |-> op, arg |-> arg, ok |-> TRUE, val |-> val, err |-> NoError]
Err(op, arg, msg) == [op |-> op, arg |-> arg, ok |-> FALSE, val |-> 0, err |-> msg]

\* How many calls of `cs` are freeBitmap of handle h.
RECURSIVE FreesOf(_, _)
FreesOf(cs, h) ==
    IF cs = <<>> THEN 0
    ELSE (IF Head(cs).fn = "freeBitmap" /\ Head(cs).bm = <<h>> THEN 1 ELSE 0)
         + FreesOf(Tail(cs), h)

\* How many calls of `cs` go to the driver slot fn.
RECURSIVE CallsOf(_, _)
CallsOf(cs, fn) ==
    IF cs = <<>> THEN 0
    ELSE (IF Head(cs).fn = fn THEN 1 ELSE 0) + CallsOf(Tail(cs), fn)

\* The operation issued the calls cs: log them and count the frees in them.
Issue(cs) ==
    /\ calls' = cs
    /\ freeCount' = [h \in BitmapHandles |-> freeCount[h] + FreesOf(cs, h)]

\* The next handle the driver's allocator hands out: never one it handed out before.
FreshHandle(bms) ==
    Cardinality({b \in DOMAIN bms : bms[b].raw \in 1..MaxBitmaps}) + 1

\* ------------------------------------------------------ reference counts
\* Where bitmap object b is cached: the (table, index) pairs holding a clone.
CachedAt(tbs, b) ==
    {p \in (DOMAIN tbs) \X Indices : tbs[p[1]].cache[p[2]] = b}

\* Rc strong count of bitmap object b: the caller's values plus one for each
\* cache entry that holds a clone.
Strong(bms, tbs, b) == bms[b].held + Cardinality(CachedAt(tbs, b))

\* BitmapInner::drop: the native free of the wrapped handle, through the
\* driver pointer current at the time of the drop.
BitmapInnerDrop(raw) ==
    <<NativeCall(GRAPHICS, "freeBitmap", <<raw>>, <<>>, NoRet)>>

\* A drop that frees the handle whether or not other values remain.
DropBitmapRefEveryTime(strong, raw) == BitmapInnerDrop(raw)

\* Dropping one Bitmap value of an object whose strong count is `strong`:
\* Rc runs BitmapInner::drop when the count reaches zero.
DropBitmapRef(strong, raw) ==
    IF strong = 1 THEN BitmapInnerDrop(raw) ELSE <<>>

\* Bitmap::new: a new Rc object around raw, one value held by the caller.
BitmapNew(raw) == [raw |-> raw, held |-> 1]

Init ==
    /\ GRAPHICS = NoDriver
    /\ gvals = {}
    /\ bitmaps = <<>>
    /\ tables = <<>>
    /\ fonts = <<>>
    /\ freeCount = [h \in BitmapHandles |-> 0]
    /\ lookups = <<>>
    /\ calls = <<>>
    /\ result = Ok("init", <<>>, 0)
    /\ crashed = FALSE

\* ------------------------------------------------------ the driver handle
\* Graphics::new(graphics): store the pointer in GRAPHICS.
GraphicsNew(h) ==
    /\ ~crashed
    /\ GRAPHICS' = h
    /\ Issue(<<>>)
    /\ result' = Ok("Graphics::new", <<>>, 0)
    /\ UNCHANGED <<gvals, bitmaps, tables, fonts, lookups, crashed>>

\* Graphics::get(): a copy of GRAPHICS, which the caller keeps.
GraphicsGet ==
    /\ ~crashed
    /\ gvals' = gvals \cup {GRAPHICS}
    /\ Issue(<<>>)
    /\ result' = Ok("Graphics::get", <<>>, 0)
    /\ UNCHANGED <<GRAPHICS, bitmaps, tables, fonts, lookups, crashed>>

\* A facade method on a Graphics value taken before initialisation
\* dereferences a null driver pointer ((*self.0).f): the process faults.
NullDeref ==
    /\ ~crashed
    /\ NoDriver \in gvals
    /\ crashed' = TRUE
    /\ Issue(<<>>)
    /\ result' = Err("fault", <<>>, "null driver")
    /\ UNCHANGED <<GRAPHICS, gvals, bitmaps, tables, fonts, lookups>>

\* A facade method that issues one native call through its own pointer
\* (set_background_color, mark_updated_rows, display, set_draw_offset, clear).
FacadeCall(self, fn) ==
    /\ ~crashed /\ self # NoDriver
    /\ Issue(<<NativeCall(self, fn, <<>>, <<>>, NoRet)>>)
    /\ result' = Ok(fn, <<>>, 0)
    /\ UNCHANGED <<GRAPHICS, gvals, bitmaps, tables, fonts, lookups, crashed>>

\* ------------------------------------------------------ Bitmap creation
\* Graphics::new_bitmap on the Graphics value self; the driver returns a
\* fresh handle or null.
NewBitmap(self, null) ==
    /\ ~crashed /\ self # NoDriver
    /\ Len(bitmaps) < MaxBitmaps
    /\ LET raw == IF null THEN NULL ELSE FreshHandle(bitmaps)
       IN /\ Issue(<<NativeCall(self, "newBitmap", <<>>, <<>>, Ret(raw, NoError))>>)
          /\ IF raw = NULL
             THEN /\ result' = Err("new_bitmap", <<>>, MsgNewBitmapNull)
                  /\ UNCHANGED bitmaps
             ELSE /\ bitmaps' = Append(bitmaps, BitmapNew(raw))
                  /\ result' = Ok("new_bitmap", <<>>, Len(bitmaps) + 1)
    /\ UNCHANGED <<GRAPHICS, gvals, tables, fonts, lookups, crashed>>

\* A load that reads out_err before it looks at the handle.
LoadResultErrFirst(op, silent, raw, err, val) ==
    IF err # NoError THEN Err(op, <<>>, err)
    ELSE IF raw = NULL THEN Err(op, <<>>, silent)
    ELSE Ok(op, <<>>, val)

\* The Result of load_bitmap / load_bitmap_table from what the driver
\* returned: `val` is the wrapper made around a non-null handle.
LoadResult(op, silent, raw, err, val) ==
    IF raw = NULL
    THEN IF err # NoError THEN Err(op, <<>>, err) ELSE Err(op, <<>>, silent)
    ELSE Ok(op, <<>>, val)

\* Graphics::load_bitmap: the driver returns (handle, out_err).
LoadBitmap(self, null, err) ==
    /\ ~crashed /\ self # NoDriver
    /\ Len(bitmaps) < MaxBitmaps
    /\ LET raw == IF null THEN NULL ELSE FreshHandle(bitmaps)
       IN /\ Issue(<<NativeCall(self, "loadBitmap", <<>>, <<>>, Ret(raw, err))>>)
          /\ result' = LoadResult("load_bitmap", MsgLoadBitmapSilent, raw, err,
                                  Len(bitmaps) + 1)
          /\ bitmaps' = IF result'.ok THEN Append(bitmaps, BitmapNew(raw)) ELSE bitmaps
    /\ UNCHANGED <<GRAPHICS, gvals, tables, fonts, lookups, crashed>>

\* Graphics::get_debug_image / Graphics::get_framebuffer_bitmap: the driver
\* hands back its own bitmap (the same handle on every call) or null, and
\* the handle is wrapped with Bitmap::new like an allocated one.
GetSystemBitmap(self, fn, op, sys, msg, null) ==
    /\ ~crashed /\ self # NoDriver
    /\ Len(bitmaps) < MaxBitmaps
    /\ LET raw == IF null THEN NULL ELSE sys
       IN /\ Issue(<<NativeCall(self, fn, <<>>, <<>>, Ret(raw, NoError))>>)
          /\ IF raw = NULL
             THEN /\ result' = Err(op, <<>>, msg)
                  /\ UNCHANGED bitmaps
             ELSE /\ bitmaps' = Append(bitmaps, BitmapNew(raw))
                  /\ result' = Ok(op, <<>>, Len(bitmaps) + 1)
    /\ UNCHANGED <<GRAPHICS, gvals, tables, fonts, lookups, crashed>>

GetDebugImage(self, null) ==
    GetSystemBitmap(self, "getDebugImage", "get_debug_image",
                    DebugImageHandle, MsgDebugNull, null)

GetFramebufferBitmap(self, null) ==
    GetSystemBitmap(self, "getFrameBufferBitmap", "get_framebuffer_bitmap",
                    FrameBufferHandle, MsgFrameBufferNull, null)

\* ------------------------------------------------------ Bitmap methods
\* Bitmap::clone (derive(Clone)): one more value of the same Rc object.
BitmapClone(b) ==
    /\ ~crashed
    /\ b \in DOMAIN bitmaps /\ bitmaps[b].held >= 1 /\ bitmaps[b].held < MaxRefs
    /\ bitmaps' = [bitmaps EXCEPT ![b].held = @ + 1]
    /\ Issue(<<>>)
    /\ result' = Ok("Bitmap::clone", <<b>>, b)
    /\ UNCHANGED <<GRAPHICS, gvals, tables, fonts, lookups, crashed>>

\* drop(Bitmap): the caller gives up one value of object b.
BitmapDrop(b) ==
    /\ ~crashed /\ GRAPHICS # NoDriver
    /\ b \in DOMAIN bitmaps /\ bitmaps[b].held >= 1
    /\ bitmaps' = [bitmaps EXCEPT ![b].held = @ - 1]
    /\ Issue(DropBitmapRef(Strong(bitmaps, tables, b), bitmaps[b].raw))
    /\ result' = Ok("Bitmap::drop", <<b>>, b)
    /\ UNCHANGED <<GRAPHICS, gvals, tables, fonts, lookups, crashed>>

\* raw_bitmap(Option<&mut Bitmap>): the handle of a Bitmap value the caller
\* holds, or null for None (0).
raw_bitmap(opt) == IF opt = 0 THEN NULL ELSE bitmaps[opt].raw

\* The Bitmap values the caller can pass as target or stencil.
Held == {b \in DOMAIN bitmaps : bitmaps[b].held >= 1}
Optional == {0} \cup Held

\* Bitmap::draw(&self, target, stencil, ..): one drawBitmap call through
\* Graphics::get_ptr().
BitmapDraw(b, target, stencil) ==
    /\ ~crashed /\ GRAPHICS # NoDriver
    /\ b \in Held
    /\ Issue(<<NativeCall(GRAPHICS, "drawBitmap",
                          <<bitmaps[b].raw, raw_bitmap(target), raw_bitmap(stencil)>>,
                          <<>>, NoRet)>>)
    /\ result' = Ok("Bitmap::draw", <<>>, 0)
    /\ UNCHANGED <<GRAPHICS, gvals, bitmaps, tables, fonts, lookups, crashed>>

\* The facade's drawing primitives (draw_line .. fill_ellipse): one native
\* call through self.0 with the target's and the stencil's handles.
GraphicsDraw(self, fn, target, stencil) ==
    /\ ~crashed /\ self # NoDriver
    /\ Issue(<<NativeCall(self, fn, <<raw_bitmap(target), raw_bitmap(stencil)>>,
                          <<>>, NoRet)>>)
    /\ result' = Ok(fn, <<>>, 0)
    /\ UNCHANGED <<GRAPHICS, gvals, bitmaps, tables, fonts, lookups, crashed>>

\* Bitmap::check_mask_collision(&self, .., other: Bitmap, ..): `other` is
\* taken by value, so the call ends by dropping that value, after the
\* native call has returned.
CheckMaskCollision(b, other) ==
    /\ ~crashed /\ GRAPHICS # NoDriver
    /\ b \in Held /\ other \in Held
    /\ b = other => bitmaps[b].held >= 2
    /\ bitmaps' = [bitmaps EXCEPT ![other].held = @ - 1]
    /\ Issue(<<NativeCall(GRAPHICS, "checkMaskCollision",
                          <<bitmaps[b].raw, bitmaps[other].raw>>, <<>>, NoRet)>>
             \o DropBitmapRef(Strong(bitmaps, tables, other), bitmaps[other].raw))
    /\ result' = Ok("Bitmap::check_mask_collision", <<>>, 0)
    /\ UNCHANGED <<GRAPHICS, gvals, tables, fonts, lookups, crashed>>

\* The Result of an in-place load: the value the native call returns is
\* discarded, and only out_err decides.
InPlaceLoadResult(op, status, err) ==
    IF err # NoError THEN Err(op, <<>>, err) ELSE Ok(op, <<>>, 0)

\* Bitmap::load(&self, path): loadIntoBitmap decodes into the existing
\* handle; the driver says whether it decoded and may set out_err.
BitmapLoad(b, status, err) ==
    /\ ~crashed /\ GRAPHICS # NoDriver
    /\ b \in Held
    /\ Issue(<<NativeCall(GRAPHICS, "loadIntoBitmap", <<bitmaps[b].raw>>, <<>>,
                          RetLoad(status, err))>>)
    /\ result' = InPlaceLoadResult("Bitmap::load", status, err)
    /\ UNCHANGED <<GRAPHICS, gvals, bitmaps, tables, fonts, lookups, crashed>>

\* ------------------------------------------------------ Font
\* A Font::new that wraps whatever pointer it is given.
FontNewUnchecked(op, font, val) == Ok(op, <<font>>, val)

\* Font::new(font): rejects a null pointer, otherwise wraps it.
FontNewResult(op, font, val) ==
    IF font # NULL THEN Ok(op, <<font>>, val) ELSE Err(op, <<font>>, MsgFontNull)

FontNew(font) ==
    /\ ~crashed
    /\ Len(fonts) < MaxFonts
    /\ Issue(<<>>)
    /\ result' = FontNewResult("Font::new", font, Len(fonts) + 1)
    /\ fonts' = IF result'.ok THEN Append(fonts, font) ELSE fonts
    /\ UNCHANGED <<GRAPHICS, gvals, bitmaps, tables, lookups, crashed>>

\* Graphics::load_font: the native loadFont, then Font::new on what it returned.
LoadFont(self, font) ==
    /\ ~crashed /\ self # NoDriver
    /\ Len(fonts) < MaxFonts
    /\ Issue(<<NativeCall(self, "loadFont", <<>>, <<>>, Ret(font, NoError))>>)
    /\ result' = FontNewResult("load_font", font, Len(fonts) + 1)
    /\ fonts' = IF result'.ok THEN Append(fonts, font) ELSE fonts
    /\ UNCHANGED <<GRAPHICS, gvals, bitmaps, tables, lookups, crashed>>

\* ------------------------------------------------------ BitmapTable
\* BitmapTable::new: a new Rc object around the table handle with an empty
\* HashMap (0 marks an index with no entry), one value held by the caller.
BitmapTableNew(raw) ==
    [raw |-> raw, cache |-> [i \in Indices |-> 0], held |-> 1]

NoLookups ==
    [mentioned |-> {}, fetches |-> [i \in Indices |-> 0], failed |-> [i \in Indices |-> 0]]

\* The table handle the driver's allocator hands out next.
FreshTable == Len(tables) + 1

\* Graphics::new_bitmap_table: whatever the driver returns is wrapped.
NewBitmapTable(self, null) ==
    /\ ~crashed /\ self # NoDriver
    /\ Len(tables) + 1 \in TableIds
    /\ LET raw == IF null THEN NULL ELSE FreshTable
       IN /\ Issue(<<NativeCall(self, "newBitmapTable", <<>>, <<>>, Ret(raw, NoError))>>)
          /\ tables' = Append(tables, BitmapTableNew(raw))
          /\ lookups' = Append(lookups, NoLookups)
          /\ result' = Ok("new_bitmap_table", <<>>, Len(tables) + 1)
    /\ UNCHANGED <<GRAPHICS, gvals, bitmaps, fonts, crashed>>

\* Graphics::load_bitmap_table: the driver returns (handle, out_err).
LoadBitmapTable(self, null, err) ==
    /\ ~crashed /\ self # NoDriver
    /\ Len(tables) + 1 \in TableIds
    /\ LET raw == IF null THEN NULL ELSE FreshTable
       IN /\ Issue(<<NativeCall(self, "loadBitmapTable", <<>>, <<>>, Ret(raw, err))>>)
          /\ result' = LoadResult("load_bitmap_table", MsgLoadTableSilent, raw, err,
                                  Len(tables) + 1)
          /\ tables' = IF result'.ok THEN Append(tables, BitmapTableNew(raw)) ELSE tables
          /\ lookups' = IF result'.ok THEN Append(lookups, NoLookups) ELSE lookups
    /\ UNCHANGED <<GRAPHICS, gvals, bitmaps, fonts, crashed>>

\* BitmapTable::clone (derive(Clone)).
TableClone(t) ==
    /\ ~crashed
    /\ t \in DOMAIN tables /\ tables[t].held >= 1 /\ tables[t].held < MaxRefs
    /\ tables' = [tables EXCEPT ![t].held = @ + 1]
    /\ Issue(<<>>)
    /\ result' = Ok("BitmapTable::clone", <<t>>, t)
    /\ UNCHANGED <<GRAPHICS, gvals, bitmaps, fonts, lookups, crashed>>

\* The indices of table t that hold a cache entry.
Cached(t) == {i \in Indices : tables[t].cache[i] # 0}

\* The orders in which a HashMap's entries can be dropped.
Orders(S) ==
    {o \in [1..Cardinality(S) -> S] : \A j, k \in 1..Cardinality(S) : o[j] = o[k] => j = k}

\* A table drop that frees every cached handle, held by a caller or not.
RECURSIVE DropCacheFreeAll(_, _)
DropCacheFreeAll(t, o) ==
    IF o = <<>> THEN <<>>
    ELSE BitmapInnerDrop(bitmaps[tables[t].cache[Head(o)]].raw)
         \o DropCacheFreeAll(t, Tail(o))

\* Dropping the cached Bitmap clones of table t in the order o.
RECURSIVE DropCache(_, _)
DropCache(t, o) ==
    IF o = <<>> THEN <<>>
    ELSE LET b == tables[t].cache[Head(o)]
         IN DropBitmapRef(Strong(bitmaps, tables, b), bitmaps[b].raw)
            \o DropCache(t, Tail(o))

\* BitmapTableInner::drop, then the drop of its fields: the native free of
\* the table, then the HashMap's Bitmap clones.
BitmapTableInnerDrop(t, o) ==
    <<NativeCall(GRAPHICS, "freeBitmapTable", <<>>, <<tables[t].raw>>, NoRet)>>
    \o DropCache(t, o)

\* drop(BitmapTable): the caller gives up one value of table t; the last
\* one drops the inner object.
TableDrop(t, o) ==
    /\ ~crashed /\ GRAPHICS # NoDriver
    /\ t \in DOMAIN tables /\ tables[t].held >= 1
    /\ IF tables[t].held = 1
       THEN /\ o \in Orders(Cached(t))
            /\ Issue(BitmapTableInnerDrop(t, o))
            /\ tables' = [tables EXCEPT ![t].held = 0, ![t].cache = [i \in Indices |-> 0]]
       ELSE /\ o = <<>>
            /\ Issue(<<>>)
            /\ tables' = [tables EXCEPT ![t].held = @ - 1]
    /\ result' = Ok("BitmapTable::drop", <<t>>, t)
    /\ UNCHANGED <<GRAPHICS, gvals, bitmaps, fonts, lookups, crashed>>

\* What one get_bitmap(i) adds to the record of table t's lookups.
Looked(t, i, cs, r) ==
    [lookups EXCEPT ![t].mentioned = @ \cup {i},
                    ![t].fetches[i] = @ + CallsOf(cs, "getTableBitmap"),
                    ![t].failed[i] = @ + (IF r.ok THEN 0 ELSE 1)]

\* BitmapTableInner::get_bitmap, cache hit: a clone of the cached Bitmap.
GetBitmapHit(t, i) ==
    LET b == tables[t].cache[i]
        r == Ok("get_bitmap", <<t, i>>, b)
    IN /\ bitmaps[b].held < MaxRefs
       /\ bitmaps' = [bitmaps EXCEPT ![b].held = @ + 1]
       /\ Issue(<<>>)
       /\ result' = r
       /\ lookups' = Looked(t, i, <<>>, r)
       /\ UNCHANGED tables

\* A cache miss that returns the fetched Bitmap without inserting a clone.
GetBitmapMissNoInsert(t, i, null) ==
    LET raw == IF null THEN NULL ELSE FreshHandle(bitmaps)
        cs == <<NativeCall(GRAPHICS, "getTableBitmap", <<>>, <<tables[t].raw, i>>,
                           Ret(raw, NoError))>>
        r == IF raw # NULL THEN Ok("get_bitmap", <<t, i>>, Len(bitmaps) + 1)
             ELSE Err("get_bitmap", <<t, i>>, MsgTableBitmapNull)
    IN /\ IF null THEN lookups[t].failed[i] < MaxFails ELSE Len(bitmaps) < MaxBitmaps
       /\ Issue(cs)
       /\ result' = r
       /\ lookups' = Looked(t, i, cs, r)
       /\ bitmaps' = IF raw # NULL THEN Append(bitmaps, BitmapNew(raw)) ELSE bitmaps
       /\ UNCHANGED tables

\* A cache miss that wraps and caches whatever the fetch returned, null too.
GetBitmapMissUnchecked(t, i, null) ==
    LET raw == IF null THEN NULL ELSE FreshHandle(bitmaps)
        cs == <<NativeCall(GRAPHICS, "getTableBitmap", <<>>, <<tables[t].raw, i>>,
                           Ret(raw, NoError))>>
        r == Ok("get_bitmap", <<t, i>>, Len(bitmaps) + 1)
    IN /\ Len(bitmaps) < MaxBitmaps
       /\ Issue(cs)
       /\ result' = r
       /\ lookups' = Looked(t, i, cs, r)
       /\ bitmaps' = Append(bitmaps, BitmapNew(raw))
       /\ tables' = [tables EXCEPT ![t].cache[i] = Len(bitmaps) + 1]

\* BitmapTableInner::get_bitmap, cache miss: one native fetch; a non-null
\* handle is wrapped, a clone goes into the cache and the Bitmap is returned.
GetBitmapMiss(t, i, null) ==
    LET raw == IF null THEN NULL ELSE FreshHandle(bitmaps)
        cs == <<NativeCall(GRAPHICS, "getTableBitmap", <<>>, <<tables[t].raw, i>>,
                           Ret(raw, NoError))>>
        r == IF raw # NULL THEN Ok("get_bitmap", <<t, i>>, Len(bitmaps) + 1)
             ELSE Err("get_bitmap", <<t, i>>, MsgTableBitmapNull)
    IN /\ IF null THEN lookups[t].failed[i] < MaxFails ELSE Len(bitmaps) < MaxBitmaps
       /\ Issue(cs)
       /\ result' = r
       /\ lookups' = Looked(t, i, cs, r)
       /\ IF raw # NULL
          THEN /\ bitmaps' = Append(bitmaps, BitmapNew(raw))
               /\ tables' = [tables EXCEPT ![t].cache[i] = Len(bitmaps) + 1]
          ELSE UNCHANGED <<bitmaps, tables>>

\* A get_bitmap that fetches from the driver without looking in the cache.
GetBitmapNoCache(t, i, null) ==
    /\ ~crashed /\ GRAPHICS # NoDriver
    /\ t \in DOMAIN tables /\ tables[t].held >= 1
    /\ GetBitmapMiss(t, i, null)
    /\ UNCHANGED <<GRAPHICS, gvals, fonts, crashed>>

\* BitmapTable::get_bitmap(index).
GetBitmap(t, i, null) ==
    /\ ~crashed /\ GRAPHICS # NoDriver
    /\ t \in DOMAIN tables /\ tables[t].held >= 1
    /\ IF tables[t].cache[i] # 0
       THEN ~null /\ GetBitmapHit(t, i)
       ELSE GetBitmapMiss(t, i, null)
    /\ UNCHANGED <<GRAPHICS, gvals, fonts, crashed>>

\* A load that empties the cache of resolved entries.
TableLoadClearsCache(t, status, err) ==
    /\ ~crashed /\ GRAPHICS # NoDriver
    /\ t \in DOMAIN tables /\ tables[t].held >= 1
    /\ Issue(<<NativeCall(GRAPHICS, "loadIntoBitmapTable", <<>>, <<tables[t].raw>>,
                          RetLoad(status, err))>>
             \o DropCache(t, CHOOSE o \in Orders(Cached(t)) : TRUE))
    /\ tables' = [tables EXCEPT ![t].cache = [i \in Indices |-> 0]]
    /\ result' = InPlaceLoadResult("BitmapTable::load", status, err)
    /\ UNCHANGED <<GRAPHICS, gvals, bitmaps, fonts, lookups, crashed>>

\* BitmapTable::load(&self, path): loadIntoBitmapTable decodes into the
\* existing table; the cache is not touched.
TableLoad(t, status, err) ==
    /\ ~crashed /\ GRAPHICS # NoDriver
    /\ t \in DOMAIN tables /\ tables[t].held >= 1
    /\ Issue(<<NativeCall(GRAPHICS, "loadIntoBitmapTable", <<>>, <<tables[t].raw>>,
                          RetLoad(status, err))>>)
    /\ result' = InPlaceLoadResult("BitmapTable::load", status, err)
    /\ UNCHANGED <<GRAPHICS, gvals, bitmaps, tables, fonts, lookups, crashed>>

\* ------------------------------------------------------ specifications
\* Ownership of Bitmaps.  The runtime installs one driver and every facade
\* method is called on a fresh Graphics::get().
Next ==
    \/ GraphicsNew("h1")
    \/ \E null \in BOOLEAN : NewBitmap(GRAPHICS, null)
    \/ \E null \in BOOLEAN : GetDebugImage(GRAPHICS, null)
    \/ \E null \in BOOLEAN : GetFramebufferBitmap(GRAPHICS, null)
    \/ \E b \in DOMAIN bitmaps : BitmapClone(b)
    \/ \E b \in DOMAIN bitmaps : BitmapDrop(b)
    \/ \E b \in Held, target \in Optional, stencil \in Optional :
          BitmapDraw(b, target, stencil)
    \/ \E target \in Optional, stencil \in Optional :
          GraphicsDraw(GRAPHICS, "drawLine", target, stencil)
    \/ \E b \in Held, other \in Held : CheckMaskCollision(b, other)

Spec == Init /\ [][Next]_vars

\* A BitmapTable, its cache and the Bitmaps taken from it.
NextTable ==
    \/ GraphicsNew("h1")
    \/ \E null \in BOOLEAN : NewBitmapTable(GRAPHICS, null)
    \/ \E t \in DOMAIN tables : TableClone(t)
    \/ \E t \in DOMAIN tables : \E o \in Orders(Cached(t)) \cup {<<>>} : TableDrop(t, o)
    \/ \E t \in DOMAIN tables, i \in Indices, null \in BOOLEAN : GetBitmap(t, i, null)
    \/ \E t \in DOMAIN tables, status \in LoadStatus, err \in OutErr : TableLoad(t, status, err)
    \/ \E b \in DOMAIN bitmaps : BitmapClone(b)
    \/ \E b \in DOMAIN bitmaps : BitmapDrop(b)

SpecTable == Init /\ [][NextTable]_vars

\* The decoding operations and what they return for each driver outcome.
NextLoad ==
    \/ GraphicsNew("h1")
    \/ \E null \in BOOLEAN, err \in OutErr : LoadBitmap(GRAPHICS, null, err)
    \/ \E null \in BOOLEAN, err \in OutErr : LoadBitmapTable(GRAPHICS, null, err)
    \/ \E b \in Held, status \in LoadStatus, err \in OutErr : BitmapLoad(b, status, err)
    \/ \E t \in DOMAIN tables, status \in LoadStatus, err \in OutErr : TableLoad(t, status, err)
    \/ \E b \in DOMAIN bitmaps : BitmapDrop(b)
    \/ \E t \in DOMAIN tables : \E o \in Orders(Cached(t)) \cup {<<>>} : TableDrop(t, o)

SpecLoad == Init /\ [][NextLoad]_vars

\* The driver pointer is installed and re-installed while the caller keeps
\* Graphics values; fonts.
NextDriver ==
    \/ \E h \in Drivers : GraphicsNew(h)
    \/ GraphicsGet
    \/ NullDeref
    \/ \E self \in gvals, fn \in FacadeFns : FacadeCall(self, fn)
    \/ \E self \in gvals, fn \in DrawFns : GraphicsDraw(self, fn, 0, 0)
    \/ \E self \in gvals, null \in BOOLEAN : NewBitmap(self, null)
    \/ \E b \in Held, target \in Optional, stencil \in Optional :
          BitmapDraw(b, target, stencil)
    \/ \E b \in DOMAIN bitmaps : BitmapDrop(b)
    \/ \E font \in FontHandles \cup {NULL} : FontNew(font)
    \/ \E self \in gvals, font \in FontHandles \cup {NULL} : LoadFont(self, font)

SpecDriver == Init /\ [][NextDriver]_vars

\* The allocating operations, with a lookup in and the drop of what they return.
NextAlloc ==
    \/ GraphicsNew("h1")
    \/ \E null \in BOOLEAN : NewBitmap(GRAPHICS, null)
    \/ \E null \in BOOLEAN, err \in OutErr : LoadBitmap(GRAPHICS, null, err)
    \/ \E null \in BOOLEAN : NewBitmapTable(GRAPHICS, null)
    \/ \E null \in BOOLEAN, err \in OutErr : LoadBitmapTable(GRAPHICS, null, err)
    \/ \E font \in FontHandles \cup {NULL} : LoadFont(GRAPHICS, font)
    \/ \E t \in DOMAIN tables, i \in Indices, null \in BOOLEAN : GetBitmap(t, i, null)
    \/ \E b \in DOMAIN bitmaps : BitmapDrop(b)
    \/ \E t \in DOMAIN tables : \E o \in Orders(Cached(t)) \cup {<<>>} : TableDrop(t, o)

SpecAlloc == Init /\ [][NextAlloc]_vars

\* ------------------------------------------------------ Bitmap ownership
\* The step drops the last reference to bitmap object b.
Released(b) ==
    /\ Strong(bitmaps, tables, b) > 0
    /\ Strong(bitmaps', tables', b) = 0

\* C1: dropping a reference to a Bitmap while another remains issues no
\* freeBitmap, and dropping the last one issues exactly one freeBitmap, of
\* that Bitmap's handle.
C1_FreeOnLastDrop ==
    [][/\ \A b \in DOMAIN bitmaps :
            Released(b) => /\ CallsOf(calls', "freeBitmap") = 1
                           /\ FreesOf(calls', bitmaps[b].raw) = 1
       /\ (\A b \in DOMAIN bitmaps : ~Released(b)) => CallsOf(calls', "freeBitmap") = 0
      ]_vars

\* A last reference has just been dropped and its handle freed.
C1_Witness ==
    /\ result.op = "Bitmap::drop"
    /\ \E b \in DOMAIN bitmaps :
         /\ result.arg = <<b>>
         /\ Strong(bitmaps, tables, b) = 0
         /\ calls = BitmapInnerDrop(bitmaps[b].raw)
         /\ freeCount[bitmaps[b].raw] = 1

\* C4 (as claimed): no bitmap handle is passed to freeBitmap twice, and
\* none is freed while a Bitmap that refers to it is still held.
C4_NoDoubleFree ==
    /\ \A h \in BitmapHandles : freeCount[h] <= 1
    /\ \A b \in DOMAIN bitmaps :
         Strong(bitmaps, tables, b) > 0 => freeCount[bitmaps[b].raw] = 0

\* C5 (as claimed): no native call other than the free itself is given a
\* bitmap handle for which freeBitmap was issued before that call.
C5_NoUseAfterFree ==
    \A k \in DOMAIN calls :
        calls[k].fn # "freeBitmap" =>
            \A j \in DOMAIN calls[k].bm :
                LET h == calls[k].bm[j]
                IN h # NULL =>
                     freeCount[h] - FreesOf(SubSeq(calls, k + 1, Len(calls)), h) = 0

\* ------------------------------------------------------ BitmapTable cache
\* C2: once get_bitmap(i) has succeeded on a table, the entry stays in the
\* cache as long as the table lives, keeps its native handle, and every
\* later get_bitmap(i) returns that same Bitmap object without a fetch; a
\* first success returns the object it has just cached.
C2_SameBitmapPerIndex ==
    [][\A t \in DOMAIN tables, i \in Indices :
         LET b == tables[t].cache[i]
             looked == result'.op = "get_bitmap" /\ result'.arg = <<t, i>>
         IN /\ b # 0 =>
                 /\ tables'[t].held >= 1 => tables'[t].cache[i] = b
                 /\ bitmaps'[b].raw = bitmaps[b].raw
                 /\ looked => /\ result'.ok
                              /\ result'.val = b
                              /\ CallsOf(calls', "getTableBitmap") = 0
            /\ (b = 0 /\ looked /\ result'.ok) =>
                 /\ result'.val \in DOMAIN bitmaps'
                 /\ tables'[t].cache[i] = result'.val
      ]_vars

\* A lookup has just been answered from the cache, after one fetch.
C2_Witness ==
    /\ result.op = "get_bitmap" /\ result.ok /\ calls = <<>>
    /\ \E t \in DOMAIN tables, i \in Indices :
         /\ result.arg = <<t, i>>
         /\ tables[t].cache[i] = result.val
         /\ lookups[t].fetches[i] = 1
         /\ bitmaps[result.val].held = 2

\* The native fetches issued for table t so far.
RECURSIVE SumOver(_, _)
SumOver(f, S) ==
    IF S = {} THEN 0
    ELSE LET x == CHOOSE y \in S : TRUE IN f[x] + SumOver(f, S \ {x})

\* C3 (as claimed): the fetches issued for a table are as many as the
\* distinct indices its get_bitmap calls mention.
C3_FetchesEqualDistinct ==
    \A t \in DOMAIN lookups :
        SumOver(lookups[t].fetches, Indices) = Cardinality(lookups[t].mentioned)

\* C3 (amended): the fetches issued for an index are the get_bitmap calls
\* for it that failed on a null fetch, plus one once the index is resolved;
\* an index never mentioned is never fetched.
C3_FetchesAmended ==
    \A t \in DOMAIN tables, i \in Indices :
        LET fetched == lookups[t].fetches[i]
            failed == lookups[t].failed[i]
        IN /\ fetched - failed \in {0, 1}
           /\ tables[t].held >= 1 =>
                fetched - failed = (IF tables[t].cache[i] # 0 THEN 1 ELSE 0)
           /\ i \notin lookups[t].mentioned => fetched = 0
           /\ i \in lookups[t].mentioned => fetched >= 1

\* An index has been resolved by a second fetch, after a null one.
C3_Witness ==
    \E t \in DOMAIN tables, i \in Indices :
        /\ tables[t].cache[i] # 0
        /\ lookups[t].failed[i] = 1
        /\ lookups[t].fetches[i] = 2

\* C10: dropping the last BitmapTable value issues exactly one
\* freeBitmapTable, of the table's handle, and dropping another issues
\* none; the drop frees no cached Bitmap a caller still holds, and such a
\* Bitmap is freed once, by the drop of the caller's last value.
C10_TableDropKeepsHeld ==
    [][/\ (\A t \in DOMAIN tables : tables'[t].held >= tables[t].held) =>
            CallsOf(calls', "freeBitmapTable") = 0
       /\ \A t \in DOMAIN tables :
            tables'[t].held < tables[t].held =>
              /\ tables'[t].held >= 1 => CallsOf(calls', "freeBitmapTable") = 0
              /\ tables'[t].held = 0 =>
                   /\ CallsOf(calls', "freeBitmapTable") = 1
                   /\ calls'[1].fn = "freeBitmapTable"
                   /\ calls'[1].other = <<tables[t].raw>>
                   /\ \A i \in Cached(t) :
                        LET b == tables[t].cache[i]
                        IN bitmaps[b].held >= 1 =>
                             /\ FreesOf(calls', bitmaps[b].raw) = 0
                             /\ freeCount'[bitmaps[b].raw] = 0
                             /\ Strong(bitmaps', tables', b) = bitmaps[b].held
       /\ \A b \in DOMAIN bitmaps :
            (CachedAt(tables, b) = {} /\ bitmaps[b].held >= 1
               /\ bitmaps'[b].held < bitmaps[b].held) =>
              /\ FreesOf(calls', bitmaps[b].raw) = (IF bitmaps'[b].held = 0 THEN 1 ELSE 0)
              /\ freeCount'[bitmaps[b].raw] = (IF bitmaps'[b].held = 0 THEN 1 ELSE 0)
      ]_vars

\* The last value of a table has just been dropped while a caller holds a
\* Bitmap taken from it.
C10_Witness ==
    /\ result.op = "BitmapTable::drop"
    /\ Len(calls) = 1 /\ calls[1].fn = "freeBitmapTable"
    /\ \E t \in DOMAIN tables :
         /\ result.arg = <<t>> /\ tables[t].held = 0
         /\ lookups[t].fetches # [i \in Indices |-> 0]
    /\ \E b \in DOMAIN bitmaps : bitmaps[b].held >= 1 /\ freeCount[bitmaps[b].raw] = 0

\* ------------------------------------------------------ decode results
\* What the driver returned to the last operation's native call.
DriverRet == calls[1].ret

\* C6: load_bitmap and load_bitmap_table return the driver's error string
\* for (null, string), their own failed-without-message error for
\* (null, null), and for a non-null handle a wrapper around that handle,
\* whatever out_err holds.
C6_LoadResultMapping ==
    result.op \in {"load_bitmap", "load_bitmap_table"} =>
        /\ (DriverRet.handle = NULL /\ DriverRet.err # NoError) =>
             ~result.ok /\ result.err = DriverRet.err
        /\ (DriverRet.handle = NULL /\ DriverRet.err = NoError) =>
             /\ ~result.ok
             /\ result.err = (IF result.op = "load_bitmap" THEN MsgLoadBitmapSilent
                              ELSE MsgLoadTableSilent)
             /\ result.err \notin OutErr
        /\ DriverRet.handle # NULL =>
             /\ result.ok
             /\ IF result.op = "load_bitmap"
                THEN /\ result.val = Len(bitmaps)
                     /\ bitmaps[result.val] = [raw |-> DriverRet.handle, held |-> 1]
                ELSE /\ result.val = Len(tables)
                     /\ tables[result.val].raw = DriverRet.handle
                     /\ tables[result.val].held = 1

\* A load has just succeeded although the driver also set out_err.
C6_Witness ==
    /\ result.op = "load_bitmap" /\ result.ok
    /\ DriverRet.handle # NULL /\ DriverRet.err \in DriverErrors
    /\ bitmaps[result.val].raw = DriverRet.handle

\* C7 (as claimed): an in-place load that the driver fails returns the
\* driver's error string when there is one and a separate silent-failure
\* error when there is none, never success.
C7_InPlaceLoadDistinguishes ==
    result.op \in {"Bitmap::load", "BitmapTable::load"} =>
        /\ DriverRet.err # NoError => ~result.ok /\ result.err = DriverRet.err
        /\ (DriverRet.status = "failed" /\ DriverRet.err = NoError) =>
             ~result.ok /\ result.err \notin OutErr

\* ------------------------------------------------------ Font and driver
\* C8: Font::new on a null pointer, also the one load_font got from the
\* driver, returns the null-pointer error, constructs no Font, and issues
\* no native call of its own (load_font has issued loadFont and no other).
C8_NullFontRejected ==
    [][/\ \A k \in DOMAIN fonts' : fonts'[k] # NULL
       /\ (result'.op \in {"Font::new", "load_font"} /\ result'.arg = <<NULL>>) =>
            /\ ~result'.ok
            /\ result'.err = MsgFontNull
            /\ fonts' = fonts
            /\ IF result'.op = "Font::new"
               THEN calls' = <<>>
               ELSE /\ Len(calls') = 1
                    /\ calls'[1].fn = "loadFont"
                    /\ calls'[1].ret.handle = NULL
      ]_vars

\* load_font has just failed on a null font from the driver.
C8_Witness ==
    /\ result.op = "load_font" /\ result.arg = <<NULL>>
    /\ ~result.ok /\ result.err = MsgFontNull
    /\ Len(calls) = 1 /\ calls[1].fn = "loadFont"

\* C9 (as claimed): every native call of an operation goes through the
\* driver pointer GRAPHICS holds when the operation starts.
C9_CallsUseCurrentDriver ==
    \A k \in DOMAIN calls : calls[k].drv = GRAPHICS

\* ------------------------------------------------------ allocation
\* The operations that return a newly owned wrapper.
AllocOps == {"new_bitmap", "load_bitmap", "new_bitmap_table", "load_bitmap_table", "load_font"}

\* C11 (as claimed): an allocating operation whose native call returns null
\* returns an error, so no wrapper holds a null handle and no native call
\* (getTableBitmap, freeBitmapTable, freeBitmap) is given one.
C11_AllocationsRejectNull ==
    /\ (result.op \in AllocOps /\ DriverRet.handle = NULL) => ~result.ok
    /\ \A b \in DOMAIN bitmaps : bitmaps[b].raw # NULL
    /\ \A t \in DOMAIN tables : tables[t].raw # NULL
    /\ \A f \in DOMAIN fonts : fonts[f] # NULL
    /\ \A k \in DOMAIN calls :
         /\ calls[k].fn \in {"getTableBitmap", "freeBitmapTable"} => calls[k].other[1] # NULL
         /\ calls[k].fn = "freeBitmap" => calls[k].bm # <<NULL>>

\* ------------------------------------------------------ load and null fetch
\* C12: BitmapTable::load, whether it succeeds or fails, leaves every
\* table's cache and every Bitmap object as they were, and a get_bitmap
\* right after it of an index resolved before returns the cached Bitmap
\* and issues no fetch.
C12_LoadKeepsCache ==
    [][/\ result'.op = "BitmapTable::load" =>
            /\ \A t \in DOMAIN tables : tables'[t].cache = tables[t].cache
            /\ bitmaps' = bitmaps
            /\ CallsOf(calls', "getTableBitmap") = 0
            /\ CallsOf(calls', "freeBitmap") = 0
       /\ \A t \in DOMAIN tables, i \in Indices :
            (/\ result.op = "BitmapTable::load"
             /\ result'.op = "get_bitmap" /\ result'.arg = <<t, i>>
             /\ tables[t].cache[i] # 0) =>
              /\ result'.ok
              /\ result'.val = tables[t].cache[i]
              /\ calls' = <<>>
              /\ lookups'[t].fetches = lookups[t].fetches
      ]_vars

\* A load has just failed on a table with a resolved index.
C12_Witness ==
    /\ result.op = "BitmapTable::load" /\ ~result.ok
    /\ \E t \in DOMAIN tables, i \in Indices :
         /\ tables[t].held >= 1
         /\ tables[t].cache[i] # 0
         /\ lookups[t].fetches[i] = 1

\* C13: a get_bitmap(i) whose fetch returns null returns an error, creates
\* no Bitmap, frees nothing and leaves every cache as it was; no Bitmap
\* wraps a null handle, and get_bitmap of an unresolved index, also one
\* that failed before, issues one fetch.
C13_NullFetchLeavesCache ==
    [][/\ \A b \in DOMAIN bitmaps' : bitmaps'[b].raw # NULL
       /\ \A k \in DOMAIN calls' : calls'[k].fn = "freeBitmap" => calls'[k].bm # <<NULL>>
       /\ \A t \in DOMAIN tables, i \in Indices :
            (result'.op = "get_bitmap" /\ result'.arg = <<t, i>>) =>
              /\ tables[t].cache[i] = 0 =>
                   /\ Len(calls') = 1
                   /\ calls'[1].fn = "getTableBitmap"
                   /\ calls'[1].other = <<tables[t].raw, i>>
                   /\ result'.ok <=> calls'[1].ret.handle # NULL
              /\ ~result'.ok =>
                   /\ result'.err = MsgTableBitmapNull
                   /\ bitmaps' = bitmaps
                   /\ tables' = tables
                   /\ freeCount' = freeCount
      ]_vars

\* A get_bitmap has just failed for the second index while the first stays
\* resolved.
C13_Witness ==
    /\ result.op = "get_bitmap" /\ ~result.ok
    /\ Len(calls) = 1 /\ calls[1].ret.handle = NULL
    /\ \E t \in DOMAIN tables, i \in Indices, j \in Indices :
         /\ result.arg = <<t, i>>
         /\ tables[t].cache[i] = 0
         /\ lookups[t].failed[i] = 1
         /\ j # i /\ tables[t].cache[j] # 0
====
